---- MODULE Spec2Model ----
(***************************************************************************)
(* A model of the gh-scraper workflow (src/main.py) and of the store it    *)
(* drives (src/utils/db.py, src/utils/search.py, src/utils/github.py).     *)
(*                                                                         *)
(* One behaviour is a sequence of at most MaxRuns invocations of main()    *)
(* against the same backing file hiring.db.  The forge (GitHub API), the   *)
(* target list repos.txt and the outcome of each INSERT / COPY are the     *)
(* environment: every action draws them from small sets.                   *)
(***************************************************************************)
EXTENDS Integers, Sequences, FiniteSets, TLC

\* ---------------------------------------------------------------- bounds
MaxRuns == 2
NumLogins == 3

Logins == 1..NumLogins

\* ------------------------------------------------- the Profile Record Model
\* A type annotation: a plain class (origin "none"), or a generic alias with
\* an __origin__ ("Union" for Optional[...]/Union[...], "list" for List[...])
\* and its __args__.
Plain(cls) == [origin |-> "none", cls |-> cls, args |-> <<>>]
OptionalOf(cls) == [origin |-> "Union", cls |-> "", args |-> <<cls, "NoneType">>]
ListOf(cls) == [origin |-> "list", cls |-> "", args |-> <<cls>>]

FieldInfo(name, annotation, required) ==
    [name |-> name, annotation |-> annotation, required |-> required]

\* class GitHubProfile(BaseModel): model_fields, in declaration order.
GitHubProfile ==
    << FieldInfo("login", Plain("str"), TRUE),
       FieldInfo("name", OptionalOf("str"), FALSE),
       FieldInfo("bio", OptionalOf("str"), FALSE),
       FieldInfo("location", OptionalOf("str"), FALSE),
       FieldInfo("company", OptionalOf("str"), FALSE),
       FieldInfo("blog",
                 [origin |-> "Union", cls |-> "",
                  args |-> <<"HttpUrl", "str", "NoneType">>], FALSE),
       FieldInfo("twitter", OptionalOf("str"), FALSE),
       FieldInfo("email", OptionalOf("str"), FALSE),
       FieldInfo("public_repos", Plain("int"), TRUE),
       FieldInfo("followers", Plain("int"), TRUE),
       FieldInfo("following", Plain("int"), TRUE),
       FieldInfo("created_at", Plain("datetime"), TRUE),
       FieldInfo("languages", ListOf("str"), TRUE),
       FieldInfo("hireable", OptionalOf("bool"), FALSE),
       FieldInfo("html_url", Plain("HttpUrl"), TRUE),
       FieldInfo("repos_url", Plain("HttpUrl"), TRUE),
       FieldInfo("organizations_url", Plain("HttpUrl"), TRUE) >>

\* ------------------------------------------------------ Schema Synthesizer
\* type_mapping.get(base_type, 'VARCHAR').  The keys are the classes str, int,
\* bool, datetime, list; the key 'HttpUrl' is a string, which no class equals,
\* so the HttpUrl class falls to the default.
TypeMapping(base) ==
    CASE base = "str" -> "VARCHAR"
      [] base = "int" -> "INTEGER"
      [] base = "bool" -> "BOOLEAN"
      [] base = "datetime" -> "TIMESTAMP"
      [] base = "list" -> "VARCHAR[]"
      [] OTHER -> "VARCHAR"

pydantic_to_duckdb_type(python_type) ==
    LET t == IF python_type.origin = "Union"
             THEN Plain(python_type.args[1])
             ELSE python_type
        base_type == IF t.origin # "none" THEN t.origin ELSE t.cls
    IN TypeMapping(base_type)

\* `nullable = field.is_required`: the attribute is read, not called.  In
\* pydantic 2 is_required is a method, so the value is a bound method object,
\* whose truth value is True for every field.
Truthy_is_required(field) == TRUE

ColumnSuffix(field) ==
    LET nullable == Truthy_is_required(field)
    IN IF nullable THEN "" ELSE " NULL"

ColumnDef(field) ==
    [name |-> field.name,
     type |-> pydantic_to_duckdb_type(field.annotation),
     suffix |-> ColumnSuffix(field)]

\* The two statements of the generated SQL: the sequence and the table.
generate_create_table_sql(model, table_name) ==
    [sequence |-> table_name \o "_id_seq",
     table |-> table_name,
     columns |->
        << [name |-> "id", type |-> "BIGINT",
            suffix |-> " PRIMARY KEY DEFAULT nextval"] >>
        \o [i \in 1..Len(model) |-> ColumnDef(model[i])]
        \o << [name |-> "fetched_at", type |-> "TIMESTAMP",
               suffix |-> " DEFAULT CURRENT_TIMESTAMP"] >>]

\* DuckDB: a column accepts NULL unless it is declared NOT NULL or PRIMARY KEY.
ColumnAcceptsNull(col) ==
    col.suffix \notin {" NOT NULL", " PRIMARY KEY DEFAULT nextval"}

\* --------------------------------------------------------- the target list
\* A line of repos.txt is a sequence of characters.
BlankLine == <<>>
SpaceLine == <<" ">>
CommentLine == <<"#", "o">>
IndentedComment == <<" ", "#", "o", "/", "r">>
IndentedPlainComment == <<" ", "#", "o">>
TargetLine == <<"o", "/", "r">>
PaddedTargetLine == <<" ", "r", "/", "o", " ">>
NoSeparatorLine == <<"o", "r">>
HashInsideLine == <<"o", "#", "r">>
TwoSeparatorsLine == <<"o", "/", "r", "/", "o">>

\* The contents of repos.txt the model runs main on.
RepoFiles ==
    { <<>>,
      << BlankLine, SpaceLine >>,
      << CommentLine, IndentedComment, IndentedPlainComment >>,
      << TargetLine >>,
      << CommentLine, BlankLine, PaddedTargetLine, SpaceLine >>,
      << TargetLine, IndentedComment, PaddedTargetLine >>,
      << NoSeparatorLine >>,
      << TargetLine, HashInsideLine >>,
      << CommentLine, TwoSeparatorsLine, TargetLine >>,
      << SpaceLine, TargetLine, BlankLine, NoSeparatorLine >> }

\* str.strip(): drop leading and trailing whitespace.
RECURSIVE LStrip(_)
LStrip(s) == IF s # <<>> /\ Head(s) = " " THEN LStrip(Tail(s)) ELSE s

RECURSIVE RStrip(_)
RStrip(s) ==
    IF s # <<>> /\ s[Len(s)] = " " THEN RStrip(SubSeq(s, 1, Len(s) - 1)) ELSE s

Strip(s) == RStrip(LStrip(s))

\* str.startswith(c) for a one-character prefix.
StartsWith(s, c) == s # <<>> /\ Head(s) = c

\* str.split(sep): the pieces between the occurrences of sep.
RECURSIVE SplitFrom(_, _, _)
SplitFrom(s, sep, piece) ==
    IF s = <<>> THEN << piece >>
    ELSE IF Head(s) = sep THEN << piece >> \o SplitFrom(Tail(s), sep, <<>>)
    ELSE SplitFrom(Tail(s), sep, Append(piece, Head(s)))

Split(s, sep) == SplitFrom(s, sep, <<>>)

\* A variant that also passes over every line holding no '/'.
LineIsTarget_SkipsNoSeparator(line) ==
    /\ Strip(line) # <<>>
    /\ ~StartsWith(Strip(line), "#")
    /\ \E i \in 1..Len(line) : line[i] = "/"

\* `if line and not line.startswith('#')` on the stripped line.
LineIsTarget(line) == Strip(line) # <<>> /\ ~StartsWith(Strip(line), "#")

\* `org, repo = line.split('/')` raises ValueError unless there are two pieces.
UnpackRaises(line) == Len(Split(Strip(line), "/")) # 2

\* read_repos_file(): the loop over the lines.  The first target line that
\* does not unpack raises; otherwise the (org, repo) pairs in file order.
RECURSIVE ReadLines(_, _)
ReadLines(lines, repos) ==
    IF lines = <<>> THEN [raised |-> FALSE, repos |-> repos]
    ELSE IF ~LineIsTarget(Head(lines)) THEN ReadLines(Tail(lines), repos)
    ELSE IF UnpackRaises(Head(lines)) THEN [raised |-> TRUE, repos |-> <<>>]
    ELSE LET parts == Split(Strip(Head(lines)), "/")
         IN ReadLines(Tail(lines), Append(repos, << parts[1], parts[2] >>))

read_repos_file(file) == ReadLines(file, <<>>)

\* ------------------------------------------------------------------- state
VARIABLES
    db,                 \* hiring.db: [file, sequences, tables]
    rows,               \* the rows of github_profiles, in insertion order
    seqval,             \* last value handed out by github_profiles_id_seq
    csv,                \* the rows last written to hiring.csv
    conns,              \* the store connections that are open
    pc,                 \* main's position
    runs,               \* invocations of main so far
    reposFile,          \* the lines of repos.txt
    existing_usernames, \* main.py:61
    targets,            \* main.py:65
    contribResults,     \* results the contributor map has yielded, undrained
    repo_usernames,     \* main.py:70
    new_usernames,      \* main.py:64, 74
    profiles,           \* results of get_profile_remote.map, main.py:89
    pending,            \* inputs whose result the insert loop has yet to visit
    successful,         \* main.py:91
    reported,           \* <<successful, len(new_usernames)>> once printed
    exportResult,       \* what export_to_csv returned: "none" before the call
    ops,                \* history: the store operations of this run, in order
    runStartRows,       \* history: rows when this run started
    schemaRuns,         \* history: how often init_database ran its statements
    okLogins,           \* history: logins the forge listed in answers that parsed
    failedUnits,        \* history: contributor fetches that failed, this run
    fetchCount,         \* history: profile fetches issued per login, this run
    fetchFailed,        \* history: logins whose profile fetch raised, this run
    saveErrors          \* history: logins whose INSERT raised, this run

vars == << db, rows, seqval, csv, conns, pc, runs, reposFile,
           existing_usernames, targets, contribResults, repo_usernames,
           new_usernames, profiles, pending, successful, reported,
           exportResult, ops, runStartRows, schemaRuns, okLogins, failedUnits,
           fetchCount, fetchFailed, saveErrors >>

storeVars == << db, rows, seqval, csv >>
histVars == << runStartRows, schemaRuns, okLogins, failedUnits, fetchCount,
               fetchFailed, saveErrors >>

TableName == "github_profiles"

\* --------------------------------------------------------------- the store
\* duckdb.connect(path) creates the file when it is absent.
Connect(d) == [d EXCEPT !.file = TRUE]

\* CREATE SEQUENCE IF NOT EXISTS
CreateSequenceIfNotExists(d, name) ==
    [d EXCEPT !.sequences = @ \cup {name}]

TableExists(d, name) == \E t \in d.tables : t.name = name

\* CREATE TABLE IF NOT EXISTS: nothing happens when the name is taken.
CreateTableIfNotExists(d, name, columns) ==
    IF TableExists(d, name) THEN d
    ELSE [d EXCEPT !.tables = @ \cup {[name |-> name, columns |-> columns]}]

\* init_database(con): the generated statements, one con.execute each.
init_database(d) ==
    LET sql == generate_create_table_sql(GitHubProfile, TableName)
    IN CreateTableIfNotExists(
           CreateSequenceIfNotExists(d, sql.sequence), sql.table, sql.columns)

\* A variant that runs the schema statements on every call.
InitNeeded_Always(d) == TRUE

\* `if not os.path.exists(db_path)`
InitNeeded(d) == ~d.file

\* A variant that closes after the block only, not in a `finally`.
CloseConn_OnlyOnSuccess(open, handle, raising) ==
    IF raising THEN open ELSE open \ {handle}

\* get_db_connection: `finally: con.close()` runs however the block is left.
CloseConn(open, handle, raising) == open \ {handle}

\* get_all_users: the set of the logins of every row.
get_all_users(rs) == { rs[i].login : i \in 1..Len(rs) }

\* save_profile_to_db: one INSERT; id comes from the sequence.
InsertRow(rs, id, profile) == Append(rs, [id |-> id, login |-> profile.login])

\* A variant without the try/except: the failure propagates to the caller.
export_to_csv_Propagates(d, copyRaises) ==
    LET raising == copyRaises \/ ~(\E t \in d.tables : t.name = "github_profiles")
    IN [raised |-> raising, value |-> ~raising]

\* export_to_csv: `except Exception: return False` around the whole body,
\* `return True` at its end.
export_to_csv(d, copyRaises) ==
    LET raising == copyRaises \/ ~TableExists(d, TableName)
    IN [raised |-> FALSE, value |-> ~raising]

\* ------------------------------------------------------------- the forge
None == [some |-> FALSE, login |-> 0]

\* What GET /repos/{org}/{repo}/contributors can do: answer with the logins of
\* a contributor list, fail with an HTTP error, answer with a body that is not
\* JSON, fail below HTTP (URLError), or answer with contributor records of
\* which one does not validate.
ContributorResponses ==
    { [kind |-> "ok", logins |-> S] : S \in SUBSET Logins }
    \cup { [kind |-> k, logins |-> {}] :
             k \in {"HTTPError", "JSONDecodeError", "URLError"} }
    \cup { [kind |-> "ValidationError", logins |-> Logins] }

\* get_contributors_from_repo: HTTPError and JSONDecodeError are caught and
\* give []; anything else propagates.
get_contributors_from_repo(resp) ==
    CASE resp.kind = "ok" -> [raised |-> FALSE, value |-> resp.logins]
      [] resp.kind \in {"HTTPError", "JSONDecodeError"} ->
            [raised |-> FALSE, value |-> {}]
      [] OTHER -> [raised |-> TRUE, value |-> {}]

\* A variant that hands back whatever the answer listed, failed or not.
get_contributors_from_repo_remote_Partial(resp) == resp.logins

\* get_contributors_from_repo_remote: `except Exception: return []`.
get_contributors_from_repo_remote(resp) ==
    LET r == get_contributors_from_repo(resp)
    IN IF r.raised THEN {} ELSE r.value

ProfileResponses == {"ok", "HTTPError", "ValidationError"}

\* get_github_profile: the validated profile of `username`, or an exception.
get_github_profile(username, resp) ==
    IF resp = "ok"
    THEN [raised |-> FALSE, value |-> [some |-> TRUE, login |-> username]]
    ELSE [raised |-> TRUE, value |-> None]

\* get_profile_remote: `except Exception: return None`.
get_profile_remote(username, resp) ==
    LET r == get_github_profile(username, resp)
    IN IF r.raised THEN None ELSE r.value

\* A variant that forgets the subtraction.
NewUsernames_NoSubtract(repo, existing) == repo

\* main.py:73: repo_usernames - existing_usernames
NewUsernames(repo, existing) == repo \ existing

\* A variant without the early return.
NothingNew_Never(new) == FALSE

\* main.py:83: `if not new_usernames`
NothingNew(new) == new = {}

\* A variant that counts before the save is known to have worked.
CountSaved_Always(count, saved) == count + 1

\* main.py:94-100: `successful += 1` follows the save inside the try.
CountSaved(count, saved) == IF saved THEN count + 1 ELSE count

\* ------------------------------------------------------------------- Init
\* No run has happened: hiring.db does not exist, main's locals are unset.
Init ==
    /\ db = [file |-> FALSE, sequences |-> {}, tables |-> {}]
    /\ rows = <<>>
    /\ seqval = 0
    /\ csv = <<>>
    /\ conns = {}
    /\ pc = "start"
    /\ runs = 1
    /\ reposFile \in RepoFiles
    /\ existing_usernames = {}
    /\ targets = <<>>
    /\ contribResults = <<>>
    /\ repo_usernames = {}
    /\ new_usernames = {}
    /\ profiles = <<>>
    /\ pending = {}
    /\ successful = 0
    /\ reported = <<>>
    /\ exportResult = "none"
    /\ ops = <<>>
    /\ runStartRows = <<>>
    /\ schemaRuns = 0
    /\ okLogins = {}
    /\ failedUnits = 0
    /\ fetchCount = [u \in Logins |-> 0]
    /\ fetchFailed = {}
    /\ saveErrors = {}

\* ---------------------------------------------------------------- actions
\* main.py:59, db.py:114-118.  The connection of the `with` inside is opened
\* and closed within the call.
InitDatabaseIfNeeded ==
    /\ pc = "start"
    /\ IF InitNeeded(db)
       THEN /\ db' = init_database(Connect(db))
            /\ schemaRuns' = schemaRuns + 1
            /\ conns' = CloseConn(conns \cup {"init"}, "init", FALSE)
       ELSE UNCHANGED << db, schemaRuns, conns >>
    /\ ops' = Append(ops, "init")
    /\ pc' = "connect"
    /\ UNCHANGED << rows, seqval, csv, runs, reposFile, existing_usernames,
                    targets, contribResults, repo_usernames, new_usernames,
                    profiles, pending, successful, reported, exportResult,
                    runStartRows, okLogins, failedUnits, fetchCount,
                    fetchFailed, saveErrors >>

\* main.py:60: entering `with get_db_connection() as con`.
OpenConnection ==
    /\ pc = "connect"
    /\ db' = Connect(db)
    /\ conns' = conns \cup {"main"}
    /\ pc' = "get_all_users"
    /\ UNCHANGED << rows, seqval, csv, runs, reposFile, existing_usernames,
                    targets, contribResults, repo_usernames, new_usernames,
                    profiles, pending, successful, reported, exportResult,
                    ops, histVars >>

\* main.py:61, search.py:23-36.  The SELECT raises when the table is missing;
\* the exception leaves the `with` block and main.
GetAllUsers ==
    /\ pc = "get_all_users"
    /\ ops' = Append(ops, "read")
    /\ IF TableExists(db, TableName)
       THEN /\ existing_usernames' = get_all_users(rows)
            /\ pc' = "read_repos_file"
            /\ UNCHANGED conns
       ELSE /\ pc' = "raised"
            /\ conns' = CloseConn(conns, "main", TRUE)
            /\ UNCHANGED existing_usernames
    /\ UNCHANGED << storeVars, runs, reposFile, targets, contribResults,
                    repo_usernames, new_usernames, profiles, pending,
                    successful, reported, exportResult, histVars >>

\* main.py:64-65, github.py:69-80.  The ValueError of a line that does not
\* unpack leaves the `with` block and main.
ReadReposFile ==
    /\ pc = "read_repos_file"
    /\ LET r == read_repos_file(reposFile)
       IN IF r.raised
          THEN /\ pc' = "raised"
               /\ conns' = CloseConn(conns, "main", TRUE)
               /\ UNCHANGED targets
          ELSE /\ targets' = r.repos
               /\ pc' = "contributors"
               /\ UNCHANGED conns
    /\ new_usernames' = {}
    /\ UNCHANGED << storeVars, runs, reposFile, existing_usernames,
                    contribResults, repo_usernames, profiles, pending,
                    successful, reported, exportResult, ops, histVars >>

\* main.py:68, one unit of get_contributors_from_repo_remote.map over
\* list(targets): the units are independent and return in any order.
FetchContributors(i, resp) ==
    /\ pc = "contributors"
    /\ i \in (1..Len(targets)) \ DOMAIN contribResults
    /\ contribResults' =
          contribResults @@ (i :> get_contributors_from_repo_remote(resp))
    /\ okLogins' = IF resp.kind = "ok" THEN okLogins \cup resp.logins ELSE okLogins
    /\ failedUnits' = IF resp.kind = "ok" THEN failedUnits ELSE failedUnits + 1
    /\ UNCHANGED << storeVars, conns, pc, runs, reposFile, existing_usernames,
                    targets, repo_usernames, new_usernames, profiles, pending,
                    successful, reported, exportResult, ops, runStartRows,
                    schemaRuns, fetchCount, fetchFailed, saveErrors >>

\* main.py:68-76, once every unit has returned: the comprehension drains the
\* map's results into the flat list `contributors`, whose logins are
\* collected and the existing ones subtracted.
ComputeNew ==
    /\ pc = "contributors"
    /\ DOMAIN contribResults = 1..Len(targets)
    /\ LET contributors == UNION { contribResults[i] : i \in 1..Len(targets) }
       IN /\ repo_usernames' = contributors
          /\ new_usernames' =
                new_usernames \cup NewUsernames(contributors, existing_usernames)
    /\ contribResults' = <<>>
    /\ ops' = Append(ops, "compute")
    /\ pc' = "find_by_location"
    /\ UNCHANGED << storeVars, conns, runs, reposFile, existing_usernames,
                    targets, profiles, pending, successful, reported,
                    exportResult, histVars >>

\* main.py:80-81, search.py:39-56: a SELECT on the table, its rows printed.
FindByLocation ==
    /\ pc = "find_by_location"
    /\ ops' = Append(ops, "read")
    /\ IF TableExists(db, TableName)
       THEN /\ pc' = "check_new"
            /\ UNCHANGED conns
       ELSE /\ pc' = "raised"
            /\ conns' = CloseConn(conns, "main", TRUE)
    /\ UNCHANGED << storeVars, runs, reposFile, existing_usernames, targets,
                    contribResults, repo_usernames, new_usernames, profiles,
                    pending, successful, reported, exportResult, histVars >>

\* main.py:83-87: return from inside the `with` block when nothing is new.
CheckNew ==
    /\ pc = "check_new"
    /\ IF NothingNew(new_usernames)
       THEN /\ pc' = "done"
            /\ conns' = CloseConn(conns, "main", FALSE)
       ELSE /\ pc' = "profiles"
            /\ UNCHANGED conns
    /\ UNCHANGED << storeVars, runs, reposFile, existing_usernames, targets,
                    contribResults, repo_usernames, new_usernames, profiles,
                    pending, successful, reported, exportResult, ops,
                    histVars >>

\* main.py:89, one unit of get_profile_remote.map over list(new_usernames).
FetchProfile(u, resp) ==
    /\ pc = "profiles"
    /\ u \in new_usernames \ DOMAIN profiles
    /\ profiles' = profiles @@ (u :> get_profile_remote(u, resp))
    /\ fetchCount' = [fetchCount EXCEPT ![u] = @ + 1]
    /\ fetchFailed' = IF resp = "ok" THEN fetchFailed ELSE fetchFailed \cup {u}
    /\ UNCHANGED << storeVars, conns, pc, runs, reposFile, existing_usernames,
                    targets, contribResults, repo_usernames, new_usernames,
                    pending, successful, reported, exportResult, ops,
                    runStartRows, schemaRuns, okLogins, failedUnits,
                    saveErrors >>

\* main.py:89-91: the map has returned every result.
BeginInsert ==
    /\ pc = "profiles"
    /\ DOMAIN profiles = new_usernames
    /\ successful' = 0
    /\ pending' = new_usernames
    /\ pc' = "insert"
    /\ UNCHANGED << storeVars, conns, runs, reposFile, existing_usernames,
                    targets, contribResults, repo_usernames, new_usernames,
                    profiles, reported, exportResult, ops, histVars >>

\* main.py:92-100, one iteration.  The results come in the order of
\* list(new_usernames), which is any order.  save_profile_to_db either inserts
\* the row or raises (it must when the table is missing); the exception is
\* caught and the loop goes on.
InsertStep(u, saveRaises) ==
    /\ pc = "insert"
    /\ u \in pending
    /\ LET profile == profiles[u]
           saved == profile.some /\ ~saveRaises /\ TableExists(db, TableName)
       IN /\ (saveRaises => profile.some)
          /\ IF saved
             THEN /\ rows' = InsertRow(rows, seqval + 1, profile)
                  /\ seqval' = seqval + 1
                  /\ ops' = Append(ops, "write")
             ELSE UNCHANGED << rows, seqval, ops >>
          /\ successful' = CountSaved(successful, saved)
          /\ saveErrors' =
                IF profile.some /\ (saveRaises \/ ~TableExists(db, TableName))
                THEN saveErrors \cup {u} ELSE saveErrors
    /\ pending' = pending \ {u}
    /\ UNCHANGED << db, csv, conns, pc, runs, reposFile, existing_usernames,
                    targets, contribResults, repo_usernames, new_usernames,
                    profiles, reported, exportResult, runStartRows,
                    schemaRuns, okLogins, failedUnits, fetchCount,
                    fetchFailed >>

\* main.py:102-103 and the end of the `with` block.
Report ==
    /\ pc = "insert"
    /\ pending = {}
    /\ reported' = << successful, Cardinality(new_usernames) >>
    /\ conns' = CloseConn(conns, "main", FALSE)
    /\ pc' = "export"
    /\ UNCHANGED << storeVars, runs, reposFile, existing_usernames, targets,
                    contribResults, repo_usernames, new_usernames, profiles,
                    pending, successful, exportResult, ops, histVars >>

\* main.py:105, db.py:121-158.  The connection of the `with` inside is opened
\* and closed within the call; the COPY writes every row, ordered by id.
ExportToCsv(copyRaises) ==
    /\ pc = "export"
    /\ db' = Connect(db)
    /\ LET r == export_to_csv(db, copyRaises)
       IN /\ conns' = CloseConn(conns \cup {"export"}, "export",
                                r.raised \/ ~r.value)
          /\ csv' = IF r.value THEN rows ELSE csv
          /\ IF r.raised
             THEN /\ pc' = "raised"
                  /\ UNCHANGED exportResult
             ELSE /\ pc' = "done"
                  /\ exportResult' = IF r.value THEN "True" ELSE "False"
    /\ ops' = Append(ops, "export")
    /\ UNCHANGED << rows, seqval, runs, reposFile, existing_usernames, targets,
                    contribResults, repo_usernames, new_usernames, profiles,
                    pending, successful, reported, histVars >>

\* main is invoked again, on the store the earlier runs left.
NextRun ==
    /\ pc \in {"done", "raised"}
    /\ runs < MaxRuns
    /\ runs' = runs + 1
    /\ pc' = "start"
    /\ reposFile' \in RepoFiles
    /\ existing_usernames' = {}
    /\ targets' = <<>>
    /\ contribResults' = <<>>
    /\ repo_usernames' = {}
    /\ new_usernames' = {}
    /\ profiles' = <<>>
    /\ pending' = {}
    /\ successful' = 0
    /\ reported' = <<>>
    /\ exportResult' = "none"
    /\ ops' = <<>>
    /\ runStartRows' = rows
    /\ okLogins' = {}
    /\ failedUnits' = 0
    /\ fetchCount' = [u \in Logins |-> 0]
    /\ fetchFailed' = {}
    /\ saveErrors' = {}
    /\ UNCHANGED << storeVars, conns, schemaRuns >>

Next ==
    \/ InitDatabaseIfNeeded
    \/ OpenConnection
    \/ GetAllUsers
    \/ ReadReposFile
    \/ \E i \in 1..Len(targets), resp \in ContributorResponses :
          FetchContributors(i, resp)
    \/ ComputeNew
    \/ FindByLocation
    \/ CheckNew
    \/ \E u \in Logins, resp \in ProfileResponses : FetchProfile(u, resp)
    \/ BeginInsert
    \/ \E u \in Logins, saveRaises \in BOOLEAN : InsertStep(u, saveRaises)
    \/ Report
    \/ \E copyRaises \in BOOLEAN : ExportToCsv(copyRaises)
    \/ NextRun

Spec == Init /\ [][Next]_vars

\* ------------------------------------------------------------- properties
\* Vocabulary of the properties below.
StartLogins == { runStartRows[i].login : i \in 1..Len(runStartRows) }
AddedRows == SubSeq(rows, Len(runStartRows) + 1, Len(rows))
CountAdded(u) == Cardinality({ i \in 1..Len(AddedRows) : AddedRows[i].login = u })
Fetched == { u \in Logins : fetchCount[u] > 0 }
CountOps(op) == Cardinality({ i \in 1..Len(ops) : ops[i] = op })
Computed == CountOps("compute") > 0
NoProfileFetch == \A u \in Logins : fetchCount[u] = 0
NoContributorFetch ==
    contribResults = <<>> /\ okLogins = {} /\ failedUnits = 0 /\ ~Computed
InWithBlock ==
    pc \in {"get_all_users", "read_repos_file", "contributors",
            "find_by_location", "check_new", "profiles", "insert"}

\* A line that is neither blank nor a comment and holds no '/'.
LacksSeparator(line) ==
    LET t == Strip(line)
    IN t # <<>> /\ t[1] # "#" /\ \A i \in 1..Len(t) : t[i] # "/"

\* A line that is neither blank nor a comment and is not one org, one '/',
\* one repo.
NotOneSeparator(line) ==
    LET t == Strip(line)
    IN /\ t # <<>>
       /\ t[1] # "#"
       /\ Cardinality({ i \in 1..Len(t) : t[i] = "/" }) # 1

\* C1: the logins main fetches a profile for are exactly the discovered ones
\* minus those persisted when the run started, each fetched once; no login
\* persisted at the start is fetched or inserted, none is inserted twice.
C1_FetchesExactlyTheNewLogins ==
    /\ \A u \in Logins :
          /\ fetchCount[u] <= 1
          /\ CountAdded(u) <= 1
          /\ (fetchCount[u] > 0 \/ CountAdded(u) > 0) =>
                (u \in okLogins /\ u \notin StartLogins)
    /\ pc \in {"insert", "export", "done"} => Fetched = okLogins \ StartLogins

C1_Witness ==
    /\ pc = "done"
    /\ StartLogins # {}
    /\ okLogins \cap StartLogins # {}
    /\ Fetched = okLogins \ StartLogins
    /\ \E u \in Fetched : CountAdded(u) = 1

\* C2: whichever profile fetches and inserts fail, the run completes; a login
\* of the batch has exactly one new row when its fetch and its insert both
\* succeeded and none otherwise, and the report is rows inserted out of the
\* size of the batch.
C2_PartialFailureIsolated ==
    /\ ~NoProfileFetch => pc # "raised"
    /\ reported # <<>> =>
          /\ pc \in {"export", "done"}
          /\ reported = << Len(AddedRows), Cardinality(new_usernames) >>
          /\ \A u \in Logins :
                CountAdded(u) =
                   IF u \in new_usernames /\ u \notin fetchFailed
                      /\ u \notin saveErrors
                   THEN 1 ELSE 0

C2_Witness ==
    /\ pc = "done"
    /\ Cardinality(new_usernames) = 3
    /\ Cardinality(fetchFailed) = 1
    /\ Cardinality(saveErrors) = 1
    /\ reported = << 1, 3 >>
    /\ Len(AddedRows) = 1

\* C3: a target whose contributor fetch fails contributes no login and does
\* not end the run; the discovered set is the union of what the other
\* targets' answers listed.
C3_FailedTargetContributesNothing ==
    /\ Computed => repo_usernames = okLogins
    /\ failedUnits > 0 => pc # "raised"

C3_Witness ==
    /\ Computed
    /\ failedUnits = 1
    /\ Len(targets) = 2
    /\ repo_usernames # {}
    /\ pc = "done"

\* C4: a target list with a non-blank, non-comment line that lacks the '/'
\* ends the run with an error before any contributor fetch, profile fetch,
\* insert or export, the table as it was; and a run ends with an error only
\* on a line that is neither blank nor a comment.
C4_MalformedTargetListAborts ==
    /\ ( /\ \E i \in 1..Len(reposFile) : LacksSeparator(reposFile[i])
         /\ pc \notin {"start", "connect", "get_all_users", "read_repos_file"} )
       => /\ pc = "raised"
          /\ NoContributorFetch
          /\ NoProfileFetch
          /\ rows = runStartRows
          /\ CountOps("write") = 0
          /\ CountOps("export") = 0
          /\ exportResult = "none"
    /\ pc = "raised" =>
          \E i \in 1..Len(reposFile) : NotOneSeparator(reposFile[i])

C4_Witness ==
    /\ pc = "raised"
    /\ reposFile = << SpaceLine, TargetLine, BlankLine, NoSeparatorLine >>
    /\ rows # <<>>
    /\ rows = runStartRows

\* C5: main's store connection is open inside the `with` block only; when a
\* run has ended, normally, by the early return or by an error, no store
\* connection is open.
C5_ConnectionClosedOnEveryExit ==
    /\ InWithBlock => conns = {"main"}
    /\ ~InWithBlock => conns = {}

C5_Witness ==
    /\ pc = "raised"
    /\ CountOps("read") = 1
    /\ conns = {}

\* C6: in a run with a non-empty new set the export is attempted once, after
\* the insert loop has visited every result; it returns True or False and
\* never raises, and the run ends normally.
C6_ExportOnceAfterInserts ==
    /\ CountOps("export") <= 1
    /\ CountOps("export") = 1 =>
          /\ ops[Len(ops)] = "export"
          /\ pending = {}
          /\ reported # <<>>
          /\ pc = "done"
    /\ new_usernames # {} =>
          /\ pc # "raised"
          /\ pc = "done" =>
                /\ CountOps("export") = 1
                /\ exportResult \in {"True", "False"}
                /\ exportResult = "True" => csv = rows

C6_Witness ==
    /\ pc = "done"
    /\ new_usernames # {}
    /\ CountOps("write") = 2
    /\ exportResult = "False"
    /\ csv # rows

\* C7: every column of the created table accepts NULL exactly when its model
\* field is optional.
C7_NullableIffOptional ==
    \A t \in db.tables :
       \A i \in 1..Len(GitHubProfile) :
          /\ t.columns[i + 1].name = GitHubProfile[i].name
          /\ ColumnAcceptsNull(t.columns[i + 1]) = ~GitHubProfile[i].required

\* C8: init_database_if_needed runs the schema statements only when the
\* backing file is absent; every call returns without an error, leaves the
\* rows as they were and the store with the one github_profiles table.
C8_InitIdempotent ==
    [][ pc = "start" =>
          /\ pc' = "connect"
          /\ schemaRuns' # schemaRuns => ~db.file
          /\ db.file => db' = db
          /\ rows' = rows
          /\ seqval' = seqval
          /\ TableExists(db', TableName)
          /\ Cardinality(db'.tables) = 1 ]_vars

C8_Witness ==
    /\ pc = "connect"
    /\ runs = 2
    /\ rows # <<>>
    /\ schemaRuns = 1
    /\ Cardinality(db.tables) = 1

\* C9: initialization precedes every store read, every store read precedes
\* the computation of the new set, and every store write follows it.
C9_StoreOpsOrdered ==
    \A i \in 1..Len(ops) :
       /\ ops[i] = "read" => \E k \in 1..(i - 1) : ops[k] = "init"
       /\ ops[i] = "read" => \A k \in 1..(i - 1) : ops[k] # "compute"
       /\ ops[i] = "write" => \E k \in 1..(i - 1) : ops[k] = "compute"

\* C10: when the new set is empty the run ends after the computation without
\* an error: no profile fetch, no insert, no export, the table as it was.
C10_EmptyNewSetStops ==
    (Computed /\ new_usernames = {}) =>
       /\ pc \in {"find_by_location", "check_new", "done"}
       /\ NoProfileFetch
       /\ rows = runStartRows
       /\ CountOps("write") = 0
       /\ CountOps("export") = 0
       /\ exportResult = "none"
       /\ reported = <<>>

C10_Witness ==
    /\ pc = "done"
    /\ Computed
    /\ new_usernames = {}
    /\ okLogins # {}
    /\ okLogins \subseteq StartLogins
    /\ conns = {}

====
